---- MODULE Spec2Model ----
(***************************************************************************)
(* wolfi-package-status: the aggregation and query-matching engine.        *)
(*                                                                         *)
(* The programs of the repository are modelled, each under its own         *)
(* specification:                                                          *)
(*   Spec      the name-only aggregator (PackageInfoOutput with            *)
(*             SubPackages []string): concurrent AddPackageMeta callers    *)
(*             under the mutex, then Sort and Print;                       *)
(*   SpecFull  the full-metadata aggregator (SubPackages []SubPackageMeta):*)
(*             AddPackageMeta, Sort, Print;                                *)
(*   SpecMain  the channel-based driver of main.go: worker goroutines,     *)
(*             three unbuffered channels, three receiver goroutines, the   *)
(*             wait groups, and the sort / trim / print steps.             *)
(*   SpecMainLive  the same driver with the scheduler's fairness, for      *)
(*             what a run eventually does;                                 *)
(*   SpecQueries  the query type, its constructors, match, matchQueries    *)
(*             and matchReference, applied to bounded inputs;              *)
(*   SpecFetch fetchAPKIndex and the driver's request for an index.        *)
(*                                                                         *)
(* Strings are sequences of characters, so that equality, regular          *)
(* expression search and lexicographic order are computed, not assumed.    *)
(***************************************************************************)
EXTENDS Integers, Sequences, FiniteSets, Bags, TLC

\* ------------------------------------------------------------------ bounds
\* AddPackageMeta calls started in one run of an aggregator specification.
MaxCalls == 2
\* Version strings are 1..MaxVersion, ordered by the version comparator.
MaxVersion == 2

\* ------------------------------------------------------------- value sets
\* Package names: a parent "a", its sub-package "ab", an unrelated "b".
Names == {<<"a">>, <<"a", "b">>, <<"b">>}
\* Origin of a record: empty, or the parent "a".
Origins == {<<>>, <<"a">>}
Versions == 1..MaxVersion
BuildTimes == {0}
\* Source labels (two of the repository's default indices).
Repos == {"wolfi os", "enterprise packages"}

\* repository.Package, the fields the program reads.
Packages ==
    [Name : Names, Origin : Origins, Version : Versions, BuildTime : BuildTimes]

\* --------------------------------------------------------------- strings
CharRank(c) ==
    CASE c = "(" -> 1
      [] c = "." -> 2
      [] c = "a" -> 3
      [] c = "b" -> 4

\* strings.Compare(s, t) < 0 : byte-wise lexicographic order.
RECURSIVE StrLess(_, _)
StrLess(s, t) ==
    IF t = <<>> THEN FALSE
    ELSE IF s = <<>> THEN TRUE
    ELSE IF CharRank(Head(s)) # CharRank(Head(t))
         THEN CharRank(Head(s)) < CharRank(Head(t))
         ELSE StrLess(Tail(s), Tail(t))

\* ---------------------------------------------------------------- queries
\* regexp.Compile: the pattern language is literals and the wildcard ".";
\* a pattern with an unbalanced "(" does not compile.
isValidRegex(pattern) == \A i \in 1..Len(pattern) : pattern[i] # "("

\* Whether pattern p matches s at offset off (1-based).
RegexMatchAt(p, s, off) ==
    \A i \in 1..Len(p) :
        /\ off + i - 1 <= Len(s)
        /\ (p[i] = "." \/ p[i] = s[off + i - 1])

\* regexp.MatchString: unanchored search.
RegexMatchString(p, s) == \E off \in 1..(Len(s) + 1) : RegexMatchAt(p, s, off)

\* A Matcher: an exact-name queryString, or a compiled *regexp.Regexp.
NewQueryString(ref) == [kind |-> "string", s |-> ref]
CompiledRegexp(expr) == [kind |-> "regexp", s |-> expr]

\* A match that reads every query string as a pattern.
MatchStringAsPattern(q, ref) == RegexMatchString(q.s, ref)

MatchString(q, ref) ==
    IF q.kind = "string" THEN q.s = ref ELSE RegexMatchString(q.s, ref)

\* matchReference: first query that matches returns true.
RECURSIVE matchReferenceFrom(_, _, _)
matchReferenceFrom(queries, ref, i) ==
    IF i > Len(queries) THEN FALSE
    ELSE IF MatchString(queries[i], ref) THEN TRUE
    ELSE matchReferenceFrom(queries, ref, i + 1)

matchReference(queries, ref) == matchReferenceFrom(queries, ref, 1)

\* The query sets an AddPackageMeta call is given.
QuerySets ==
    { <<NewQueryString(<<"a">>)>>,
      <<CompiledRegexp(<<"a">>)>>,
      <<NewQueryString(<<"b">>), NewQueryString(<<"a", "b">>)>> }

\* ------------------------------------------------------- version ordering
\* v2.GreaterThan(v1) of the version comparator.
GreaterThan(v2, v1) == v2 > v1

\* All permutations of sequence s.
Perms(s) ==
    LET n == Len(s)
        bij == {f \in [1..n -> 1..n] : \A i, j \in 1..n : f[i] = f[j] => i = j}
    IN  {[i \in 1..n |-> s[f[i]]] : f \in bij}

\* less(i, j) of Sort: versions[j] is greater than versions[i].
VersionLess(x, y) == GreaterThan(y.Version, x.Version)

\* No later element is less than an earlier one.
OrderedByVersion(p) == \A i, j \in 1..Len(p) : i < j => ~VersionLess(p[j], p[i])

\* A sort that may rearrange equal elements of a slice already in order.
SortedByVersionAnyOrder(s) == {p \in Perms(s) : OrderedByVersion(p)}

\* The outcomes of sort.Slice (not stable): a slice that is out of order
\* comes out as any ordered permutation (equal elements in any order); a
\* slice already in order is left as it is, since the sort moves an element
\* only when less finds it out of place.
SortedByVersion(s) ==
    IF OrderedByVersion(s) THEN {s} ELSE {p \in Perms(s) : OrderedByVersion(p)}


\* dedup (utils.go): the distinct elements, in ascending order.
RECURSIVE SortedNames(_)
SortedNames(S) ==
    IF S = {} THEN <<>>
    ELSE LET mn == CHOOSE x \in S : \A y \in S \ {x} : StrLess(x, y)
         IN  <<mn>> \o SortedNames(S \ {mn})

Range(s) == {s[i] : i \in 1..Len(s)}

\* A dedup that returns its argument as it is.
dedupKeepAll(arr) == arr

dedup(arr) == SortedNames(Range(arr))

\* The multiset of the elements of a sequence.
RECURSIVE SeqToBag(_)
SeqToBag(s) ==
    IF s = <<>> THEN EmptyBag ELSE SetToBag({Head(s)}) (+) SeqToBag(Tail(s))

\* ===================================================== name-only aggregator
VARIABLES
    Result,     \* PackageInfoOutput.Result : name -> PackageData
    m,          \* PackageInfoOutput.m : the worker holding the mutex, or NoHolder
    wpc,        \* per worker: position inside AddPackageMeta
    warg,       \* per worker: the arguments and locals of its call in progress
    calls,      \* AddPackageMeta calls started
    phase,      \* "fanout", "sorted" ("resorted" after a second Sort), then
                \* "printed" (trimmed) or "printedAll"
    out,        \* what Print wrote to WriteStream
    contrib,    \* history: per name, the version entries of primary matches
    subContrib, \* history: per origin, the names of sub-package matches
    merged      \* history: Result as Sort found it

aggVars == <<Result, m, wpc, warg, calls, phase, out, contrib, subContrib, merged>>

\* ===================================================== channel-based driver
VARIABLES
    args,         \* the command line: queryStrings, matchAsRegex, showParentPackageInformation
    apkIndex,     \* per source: apkIndex.Packages, what its index decodes to
    g,            \* per source: its worker goroutine (position, locals)
    rcv,          \* per channel: its receiver goroutine (position, item in hand)
    results,      \* results : Result
    subPackages,  \* subPackages : SubPackages
    closed,       \* the channels that have been closed
    mpc,          \* position of main after the fan-out
    exited,       \* os.Exit(1) has been called
    stdout        \* the lines written to standard output

mainVars == <<args, apkIndex, g, rcv, results, subPackages, closed, mpc, exited, stdout>>

\* The functions of the repository that are checked on their own (query
\* construction and matching, the index request): arguments and results of
\* the calls made so far.
VARIABLE fn

\* fn while another specification runs.
FnIdle == fn = [pc |-> "off"]

\* One worker per source; a worker passes its source label as repo.
Workers == Repos
NoHolder == "none"
NoArg == [q |-> <<>>, pkgmeta |-> [Name |-> <<>>, Origin |-> <<>>, Version |-> 1, BuildTime |-> 0],
          isMatched |-> FALSE, isSubPkg |-> FALSE, exists |-> FALSE,
          pkgInfoTemp |-> [Versions |-> <<>>, SubPackages |-> <<>>]]

\* PackageMeta built by AddPackageMeta from the record and the repo label.
PackageMeta(pkgmeta, repo) ==
    [BuildTime |-> pkgmeta.BuildTime, Origin |-> pkgmeta.Origin,
     Repository |-> repo, Version |-> pkgmeta.Version]

\* Classification that looks at the origin before the name.
ClassifyOriginFirst(q, pkgmeta) ==
    IF Len(pkgmeta.Origin) # 0 /\ matchReference(q, pkgmeta.Origin) THEN "subpkg"
    ELSE IF matchReference(q, pkgmeta.Name) THEN "matched"
    ELSE "return"

\* Classification without the early return: an unmatched record is kept.
ClassifyNoDrop(q, pkgmeta) ==
    IF matchReference(q, pkgmeta.Name) THEN "matched"
    ELSE IF Len(pkgmeta.Origin) # 0 /\ matchReference(q, pkgmeta.Origin) THEN "subpkg"
    ELSE "matched"

\* The classification at the head of AddPackageMeta (name-only variant):
\* "matched" (primary), "subpkg", or "return" (dropped).
Classify(q, pkgmeta) ==
    IF matchReference(q, pkgmeta.Name) THEN "matched"
    ELSE IF Len(pkgmeta.Origin) # 0 /\ matchReference(q, pkgmeta.Origin) THEN "subpkg"
    ELSE "return"

\* A lock that excludes nobody.
MutexNeverHeld == TRUE

\* p.m.Lock() can proceed.
MutexFree == m = NoHolder

AggInit ==
    /\ Result = <<>>
    /\ m = NoHolder
    /\ wpc = [w \in Workers |-> "idle"]
    /\ warg = [w \in Workers |-> NoArg]
    /\ calls = 0
    /\ phase = "fanout"
    /\ out = <<>>
    /\ contrib = [n \in Names |-> EmptyBag]
    /\ subContrib = [n \in Names |-> EmptyBag]
    /\ merged = <<>>

\* AddPackageMeta up to p.m.Lock(): classify, return when dropped.
AddPackageMeta(w, q, pkgmeta) ==
    /\ phase = "fanout"
    /\ wpc[w] = "idle"
    /\ calls < MaxCalls
    /\ calls' = calls + 1
    /\ LET c == Classify(q, pkgmeta) IN
         IF c = "return"
         THEN UNCHANGED <<wpc, warg>>
         ELSE /\ wpc' = [wpc EXCEPT ![w] = "lock"]
              /\ warg' = [warg EXCEPT ![w] =
                            [NoArg EXCEPT !.q = q, !.pkgmeta = pkgmeta,
                                          !.isMatched = (c = "matched"),
                                          !.isSubPkg = (c = "subpkg")]]
    /\ contrib' =
         IF matchReference(q, pkgmeta.Name)
         THEN [contrib EXCEPT ![pkgmeta.Name] = @ (+) SetToBag({PackageMeta(pkgmeta, w)})]
         ELSE contrib
    /\ subContrib' =
         IF /\ ~matchReference(q, pkgmeta.Name)
            /\ pkgmeta.Origin # <<>>
            /\ matchReference(q, pkgmeta.Origin)
         THEN [subContrib EXCEPT ![pkgmeta.Origin] = @ (+) SetToBag({pkgmeta.Name})]
         ELSE subContrib
    /\ UNCHANGED <<Result, m, phase, out, merged, mainVars, fn>>

\* p.m.Lock()
Lock(w) ==
    /\ wpc[w] = "lock"
    /\ MutexFree
    /\ m' = w
    /\ wpc' = [wpc EXCEPT ![w] = "locked"]
    /\ UNCHANGED <<Result, warg, calls, phase, out, contrib, subContrib, merged, mainVars, fn>>

\* Merging under the record's own name, whatever the classification.
TargetKeyOwnName(a) == a.pkgmeta.Name

\* The key the call merges into.
TargetKey(a) == IF a.isMatched THEN a.pkgmeta.Name ELSE a.pkgmeta.Origin

\* `_, exists := p.Result[key]` and `pkgInfoTemp := p.Result[key]`
ReadEntry(w) ==
    /\ wpc[w] = "locked"
    /\ LET key == TargetKey(warg[w]) IN
         warg' = [warg EXCEPT ![w] =
                    IF key \in DOMAIN Result
                    THEN [@ EXCEPT !.exists = TRUE, !.pkgInfoTemp = Result[key]]
                    ELSE [@ EXCEPT !.exists = FALSE]]
    /\ wpc' = [wpc EXCEPT ![w] = "write"]
    /\ UNCHANGED <<Result, m, calls, phase, out, contrib, subContrib, merged, mainVars, fn>>

\* The value AddPackageMeta stores under the key.
MergedEntry(a, repo) ==
    IF a.isMatched
    THEN IF a.exists
         THEN [a.pkgInfoTemp EXCEPT !.Versions = Append(@, PackageMeta(a.pkgmeta, repo))]
         ELSE [Versions |-> <<PackageMeta(a.pkgmeta, repo)>>, SubPackages |-> <<>>]
    ELSE IF a.exists
         THEN [a.pkgInfoTemp EXCEPT !.SubPackages = Append(@, a.pkgmeta.Name)]
         ELSE [Versions |-> <<>>, SubPackages |-> <<a.pkgmeta.Name>>]

\* `p.Result[key] = ...` and the deferred p.m.Unlock()
WriteEntry(w) ==
    /\ wpc[w] = "write"
    /\ Result' = (TargetKey(warg[w]) :> MergedEntry(warg[w], w)) @@ Result
    /\ m' = NoHolder
    /\ wpc' = [wpc EXCEPT ![w] = "idle"]
    /\ warg' = [warg EXCEPT ![w] = NoArg]
    /\ UNCHANGED <<calls, phase, out, contrib, subContrib, merged, mainVars, fn>>

\* Sort and Print run after the fan-out: no AddPackageMeta call in progress.
FanOutDone == \A w \in Workers : wpc[w] = "idle"

\* A Sort that keeps the sub-package list only of a key with several versions.
SortedEntriesSeveralVersions(pkgData) ==
    IF Len(pkgData.Versions) > 1
    THEN {[Versions |-> v, SubPackages |-> dedup(pkgData.SubPackages)] :
             v \in SortedByVersion(pkgData.Versions)}
    ELSE {[pkgData EXCEPT !.SubPackages = <<>>]}

\* What Sort stores for one key.
SortedEntries(pkgData) ==
    {[Versions |-> v, SubPackages |-> s] :
        v \in (IF Len(pkgData.Versions) > 1
               THEN SortedByVersion(pkgData.Versions) ELSE {pkgData.Versions}),
        s \in {IF Len(pkgData.SubPackages) > 0
               THEN dedup(pkgData.SubPackages) ELSE pkgData.SubPackages}}

\* The maps Sort can leave: for every key of R, one of its sorted entries.
SortOutcomes(R) ==
    {f \in [DOMAIN R -> UNION {SortedEntries(R[k]) : k \in DOMAIN R}] :
        \A k \in DOMAIN R : f[k] \in SortedEntries(R[k])}

\* PackageInfoOutput.Sort (name-only variant)
Sort ==
    /\ phase \in {"fanout", "sorted"}
    /\ FanOutDone
    /\ Result' \in SortOutcomes(Result)
    /\ phase' = IF phase = "fanout" THEN "sorted" ELSE "resorted"
    /\ merged' = IF phase = "fanout" THEN Result ELSE merged
    /\ UNCHANGED <<m, wpc, warg, calls, out, contrib, subContrib, mainVars, fn>>

\* A trim that keeps the first index instead of the last.
TrimmedFirst(pkgInfo) ==
    IF Len(pkgInfo.Versions) > 1
    THEN [pkgInfo EXCEPT !.Versions = <<pkgInfo.Versions[1]>>]
    ELSE pkgInfo

\* The trim step of Print: all versions apart from the last index are deleted.
Trimmed(pkgInfo) ==
    IF Len(pkgInfo.Versions) > 1
    THEN [pkgInfo EXCEPT !.Versions = <<pkgInfo.Versions[Len(pkgInfo.Versions)]>>]
    ELSE pkgInfo

\* A trim that also drops the keys left without a version entry.
TrimResultDropEmpty(R, listAll) ==
    IF listAll THEN R
    ELSE [k \in {n \in DOMAIN R : Len(R[n].Versions) > 0} |-> Trimmed(R[k])]

TrimResult(R, listAll) ==
    IF listAll THEN R ELSE [k \in DOMAIN R |-> Trimmed(R[k])]

\* Lines of the text output.
NoMeta == [BuildTime |-> 0, Origin |-> <<>>, Repository |-> "", Version |-> 0]
HeaderLine(key) == [kind |-> "header", name |-> key, meta |-> NoMeta, parent |-> <<>>]
VersionLine(v, showParentPkgInfo) ==
    [kind |-> "version", name |-> <<>>, meta |-> v,
     parent |-> IF showParentPkgInfo THEN <<v.Origin>> ELSE <<>>]
SubHeaderLine == [kind |-> "subheader", name |-> <<>>, meta |-> NoMeta, parent |-> <<>>]
SubLine(s) == [kind |-> "sub", name |-> s, meta |-> NoMeta, parent |-> <<>>]

RECURSIVE VersionLines(_, _)
VersionLines(vs, showParentPkgInfo) ==
    IF vs = <<>> THEN <<>>
    ELSE <<VersionLine(Head(vs), showParentPkgInfo)>>
         \o VersionLines(Tail(vs), showParentPkgInfo)

SubLines(subs) == [i \in 1..Len(subs) |-> SubLine(subs[i])]

\* Whether the text output lists the sub-packages of a key.
ShowsSubPackages(pkgInfo, showSubPkgInfo, matchAsRegex) ==
    showSubPkgInfo /\ ~matchAsRegex /\ Len(pkgInfo.SubPackages) > 0

KeyLines(R, key, showParentPkgInfo, showSubPkgInfo, matchAsRegex) ==
    <<HeaderLine(key)>>
    \o VersionLines(R[key].Versions, showParentPkgInfo)
    \o (IF ShowsSubPackages(R[key], showSubPkgInfo, matchAsRegex)
        THEN <<SubHeaderLine>> \o SubLines(R[key].SubPackages)
        ELSE <<>>)

RECURSIVE TextLines(_, _, _, _, _)
TextLines(R, keys, showParentPkgInfo, showSubPkgInfo, matchAsRegex) ==
    IF keys = <<>> THEN <<>>
    ELSE KeyLines(R, Head(keys), showParentPkgInfo, showSubPkgInfo, matchAsRegex)
         \o TextLines(R, Tail(keys), showParentPkgInfo, showSubPkgInfo, matchAsRegex)

JSONDoc(R) == <<[kind |-> "json", doc |-> R]>>

\* PackageInfoOutput.Print (name-only variant); the name Print is taken by TLC.
PrintOutput(listAll, printJSON, showParentPkgInfo, showSubPkgInfo, matchAsRegex) ==
    /\ phase \in {"sorted", "resorted"}
    /\ Result' = TrimResult(Result, listAll)
    /\ out' = IF printJSON
              THEN JSONDoc(Result')
              ELSE TextLines(Result', SortedNames(DOMAIN Result'),
                             showParentPkgInfo, showSubPkgInfo, matchAsRegex)
    /\ phase' = IF listAll THEN "printedAll" ELSE "printed"
    /\ UNCHANGED <<m, wpc, warg, calls, contrib, subContrib, merged, mainVars, fn>>

AggNext ==
    \/ \E w \in Workers, q \in QuerySets, pkgmeta \in Packages : AddPackageMeta(w, q, pkgmeta)
    \/ \E w \in Workers : Lock(w)
    \/ \E w \in Workers : ReadEntry(w)
    \/ \E w \in Workers : WriteEntry(w)
    \/ Sort
    \/ \E listAll, printJSON, showParentPkgInfo, showSubPkgInfo, matchAsRegex \in BOOLEAN :
          PrintOutput(listAll, printJSON, showParentPkgInfo, showSubPkgInfo, matchAsRegex)

\* The driver's variables while an aggregator specification runs.
MainIdle ==
    /\ args = [queryStrings |-> <<>>, matchAsRegex |-> FALSE,
               showParentPackageInformation |-> FALSE]
    /\ apkIndex = <<>>
    /\ g = <<>>
    /\ rcv = <<>>
    /\ results = <<>>
    /\ subPackages = <<>>
    /\ closed = {}
    /\ mpc = "off"
    /\ exited = FALSE
    /\ stdout = <<>>

vars == <<aggVars, mainVars, fn>>
Init == AggInit /\ MainIdle /\ FnIdle
Next == AggNext
Spec == Init /\ [][Next]_vars


\* ================================================ full-metadata aggregator
\* The same PackageInfoOutput state; SubPackages holds SubPackageMeta entries.
\* Calls are made one at a time, each by the worker of source repo.

\* SubPackageMeta: PackageMeta plus the sub-package's own name.
SubPackageMeta(pkgmeta, repo) ==
    [BuildTime |-> pkgmeta.BuildTime, Origin |-> pkgmeta.Origin,
     Repository |-> repo, Version |-> pkgmeta.Version, Name |-> pkgmeta.Name]

\* The classification at the head of AddPackageMeta (full-metadata variant).
ClassifyFull(q, pkgmeta) ==
    IF matchReference(q, pkgmeta.Name)
    THEN IF Len(pkgmeta.Origin) # 0 /\ matchReference(q, pkgmeta.Origin)
         THEN "subpkg" ELSE "return"
    ELSE "matched"

\* The value AddPackageMeta (full-metadata variant) stores under its key.
MergedEntryFull(R, c, pkgmeta, repo) ==
    IF c = "matched"
    THEN IF pkgmeta.Name \in DOMAIN R
         THEN [R[pkgmeta.Name] EXCEPT !.Versions = Append(@, PackageMeta(pkgmeta, repo))]
         ELSE [Versions |-> <<PackageMeta(pkgmeta, repo)>>, SubPackages |-> <<>>]
    ELSE IF pkgmeta.Origin \in DOMAIN R
         THEN [R[pkgmeta.Origin] EXCEPT !.SubPackages = Append(@, SubPackageMeta(pkgmeta, repo))]
         ELSE [Versions |-> <<>>, SubPackages |-> <<SubPackageMeta(pkgmeta, repo)>>]

\* PackageInfoOutput.AddPackageMeta (full-metadata variant), the whole call.
AddPackageMetaFull(q, pkgmeta, repo) ==
    /\ phase = "fanout"
    /\ calls < MaxCalls
    /\ calls' = calls + 1
    /\ LET c == ClassifyFull(q, pkgmeta)
           key == IF c = "matched" THEN pkgmeta.Name ELSE pkgmeta.Origin
       IN  Result' = IF c = "return" THEN Result
                     ELSE (key :> MergedEntryFull(Result, c, pkgmeta, repo)) @@ Result
    /\ UNCHANGED <<m, wpc, warg, phase, out, contrib, subContrib, merged, mainVars, fn>>

\* less(i, j) of the sub-package sort: by name, then by version.
SubPkgLess(x, y) ==
    IF x.Name # y.Name THEN StrLess(x.Name, y.Name)
    ELSE GreaterThan(y.Version, x.Version)

SortedBySubPkg(s) ==
    {p \in Perms(s) : \A i, j \in 1..Len(p) : i < j => ~SubPkgLess(p[j], p[i])}

\* A Sort whose ordering reaches only the loop's copy of the entry.
SortedEntriesFullCopyOnly(pkgData) == {pkgData}

\* What Sort leaves for one key: sort.Slice orders the slices in place, so
\* the map's entry is ordered although pkgData is a copy never stored back.
SortedEntriesFull(pkgData) ==
    {[Versions |-> v, SubPackages |-> s] :
        v \in (IF Len(pkgData.Versions) > 1
               THEN SortedByVersion(pkgData.Versions) ELSE {pkgData.Versions}),
        s \in (IF Len(pkgData.SubPackages) > 1
               THEN SortedBySubPkg(pkgData.SubPackages) ELSE {pkgData.SubPackages})}

SortOutcomesFull(R) ==
    {f \in [DOMAIN R -> UNION {SortedEntriesFull(R[k]) : k \in DOMAIN R}] :
        \A k \in DOMAIN R : f[k] \in SortedEntriesFull(R[k])}

\* PackageInfoOutput.Sort (full-metadata variant)
SortFull ==
    /\ phase = "fanout"
    /\ Result' \in SortOutcomesFull(Result)
    /\ phase' = "sorted"
    /\ merged' = Result
    /\ UNCHANGED <<m, wpc, warg, calls, out, contrib, subContrib, mainVars, fn>>

\* The sub-packages at the version and repository of the retained version.
FilteredSubPackages(pkgInfo) ==
    LET repo == pkgInfo.Versions[1].Repository
        ver == pkgInfo.Versions[1].Version
        Keep(sp) == sp.Version = ver /\ sp.Repository = repo
    IN  SelectSeq(pkgInfo.SubPackages, Keep)

\* The loop-local pkgInfo at the end of one iteration of the trim loop.
TrimLocalFull(pkgInfo) ==
    LET cut == Trimmed(pkgInfo) IN
    IF Len(cut.SubPackages) > 0 /\ Len(cut.Versions) = 1
    THEN [cut EXCEPT !.SubPackages = FilteredSubPackages(cut)]
    ELSE cut

\* What one iteration of the trim loop leaves in results[name]: the store
\* `results[name] = pkgInfo` is inside the versions branch, before the
\* sub-package filter assigns to the local copy.
TrimStoredFull(pkgInfo) ==
    IF Len(pkgInfo.Versions) > 1 THEN Trimmed(pkgInfo) ELSE pkgInfo

TrimResultFull(R, listAll) ==
    IF listAll THEN R ELSE [k \in DOMAIN R |-> TrimStoredFull(R[k])]

SubLineFull(sp) ==
    [kind |-> "sub", name |-> sp.Name,
     meta |-> [BuildTime |-> sp.BuildTime, Origin |-> sp.Origin,
               Repository |-> sp.Repository, Version |-> sp.Version],
     parent |-> <<>>]

KeyLinesFull(R, key, showParentPkgInfo, showSubPkgInfo) ==
    <<HeaderLine(key)>>
    \o VersionLines(R[key].Versions, showParentPkgInfo)
    \o (IF showSubPkgInfo /\ Len(R[key].SubPackages) > 0
        THEN <<SubHeaderLine>>
             \o [i \in 1..Len(R[key].SubPackages) |-> SubLineFull(R[key].SubPackages[i])]
        ELSE <<>>)

RECURSIVE TextLinesFull(_, _, _, _)
TextLinesFull(R, keys, showParentPkgInfo, showSubPkgInfo) ==
    IF keys = <<>> THEN <<>>
    ELSE KeyLinesFull(R, Head(keys), showParentPkgInfo, showSubPkgInfo)
         \o TextLinesFull(R, Tail(keys), showParentPkgInfo, showSubPkgInfo)

\* PackageInfoOutput.Print (full-metadata variant)
PrintFull(listAll, printJSON, showParentPkgInfo, showSubPkgInfo) ==
    /\ phase = "sorted"
    /\ Result' = TrimResultFull(Result, listAll)
    /\ out' = IF printJSON
              THEN JSONDoc(Result')
              ELSE TextLinesFull(Result', SortedNames(DOMAIN Result'),
                                 showParentPkgInfo, showSubPkgInfo)
    /\ phase' = IF listAll THEN "printedAll" ELSE "printed"
    /\ UNCHANGED <<m, wpc, warg, calls, contrib, subContrib, merged, mainVars, fn>>

FullNext ==
    \/ \E q \in QuerySets, pkgmeta \in Packages, repo \in Repos :
          AddPackageMetaFull(q, pkgmeta, repo)
    \/ SortFull
    \/ \E listAll, printJSON, showParentPkgInfo, showSubPkgInfo \in BOOLEAN :
          PrintFull(listAll, printJSON, showParentPkgInfo, showSubPkgInfo)

SpecFull == Init /\ [][FullNext]_vars

\* ===================================================== channel-based driver
\* main.go: one worker goroutine per source, the channels resultsChan,
\* subPackagesChan and errorsChan (unbuffered), one receiver goroutine per
\* channel, then sort, trim and print.

Sources == Repos
Channels == {"results", "subPackages", "errors"}

\* The records the indices of a run hold.
pkgA1 == [Name |-> <<"a">>, Origin |-> <<"a">>, Version |-> 1, BuildTime |-> 0]
pkgA2 == [Name |-> <<"a">>, Origin |-> <<"a">>, Version |-> 2, BuildTime |-> 0]
pkgAB == [Name |-> <<"a", "b">>, Origin |-> <<"a">>, Version |-> 1, BuildTime |-> 0]
pkgB == [Name |-> <<"b">>, Origin |-> <<>>, Version |-> 1, BuildTime |-> 0]

\* What the index of one source can decode to.
Indices == { <<pkgA2, pkgAB>>, <<pkgA1, pkgB>>, <<pkgAB>> }

\* The positional arguments of a run.
RunQueries ==
    { <<>>, << <<"a">> >>, << <<"a">>, <<"a">> >>, << <<"a">>, <<".">> >>,
      << <<"(">> >> }

NewWorker ==
    [pc |-> "start", localFile |-> FALSE, i |-> 1, localResults |-> <<>>,
     localSubPackages |-> <<>>, fail |-> "none"]
NewReceiver == [pc |-> "recv", item |-> <<>>, todo |-> {}]

MainInit ==
    /\ args \in [queryStrings : RunQueries, matchAsRegex : BOOLEAN,
                 showParentPackageInformation : BOOLEAN]
    /\ apkIndex \in [Sources -> Indices]
    /\ g = [w \in Sources |-> NewWorker]
    /\ rcv = [c \in Channels |-> NewReceiver]
    /\ results = <<>>
    /\ subPackages = <<>>
    /\ closed = {}
    /\ mpc = "wgWait"
    /\ exited = FALSE
    /\ stdout = <<>>

\* A diagnostic line about source w.
DiagLine(what, w) ==
    [kind |-> what, name |-> <<>>, meta |-> [NoMeta EXCEPT !.Repository = w],
     parent |-> <<>>]

\* The outcomes of the worker's first part that leave an index file to open.
FetchOK == {"localFile", "downloaded"}

\* The worker up to the index file: os.Stat finds a local file, or else
\* request creation, client.Do, MkdirTemp, os.Create, io.Copy.
Worker_Fetch(w) ==
    /\ ~exited
    /\ g[w].pc = "start"
    /\ \E outcome \in FetchOK \cup {"requestError", "downloadError", "tempFileError"} :
         /\ g' = [g EXCEPT ![w].pc = IF outcome \in FetchOK THEN "open"
                                     ELSE IF outcome = "requestError" THEN "failed"
                                     ELSE @,
                           ![w].localFile = (outcome = "localFile"),
                           ![w].fail = IF outcome \in FetchOK THEN @ ELSE outcome]
         /\ stdout' = IF outcome \in FetchOK THEN stdout
                      ELSE Append(stdout, DiagLine(outcome, w))
         /\ exited' = (outcome \in {"downloadError", "tempFileError"})
    /\ UNCHANGED <<args, apkIndex, rcv, results, subPackages, closed, mpc, aggVars, fn>>

\* os.Open and repository.IndexFromArchive
Worker_Decode(w) ==
    /\ ~exited
    /\ g[w].pc = "open"
    /\ \E outcome \in {"ok", "openError", "decodeError"} :
         g' = [g EXCEPT ![w].pc = IF outcome = "ok" THEN "loop" ELSE "sendErr",
                        ![w].fail = IF outcome = "ok" THEN @ ELSE outcome]
    /\ UNCHANGED <<args, apkIndex, rcv, results, subPackages, closed, mpc, exited,
                   stdout, aggVars, fn>>

\* errorsChan <- err, taken by the errors receiver; the worker returns.
Worker_SendError(w) ==
    /\ ~exited
    /\ g[w].pc = "sendErr"
    /\ rcv["errors"].pc = "recv"
    /\ g' = [g EXCEPT ![w].pc = "failed"]
    /\ rcv' = [rcv EXCEPT !["errors"] =
                 [pc |-> "merge", item |-> DiagLine(g[w].fail, w), todo |-> {}]]
    /\ UNCHANGED <<args, apkIndex, results, subPackages, closed, mpc, exited, stdout,
                   aggVars, fn>>

\* The match decision of the query loop for one query string.
MatchFound(queryString, name, matchAsRegex) ==
    \/ queryString = name
    \/ matchAsRegex /\ isValidRegex(queryString) /\ RegexMatchString(queryString, name)

\* A Version labelled with the first source whatever the worker.
VersionOfFirstSource(pkg, friendlyName) ==
    [BuildTime |-> pkg.BuildTime, Origin |-> pkg.Origin,
     Repository |-> "wolfi os", Version |-> pkg.Version]

\* Version built from a record by the worker of source friendlyName.
VersionOf(pkg, friendlyName) ==
    [BuildTime |-> pkg.BuildTime, Origin |-> pkg.Origin,
     Repository |-> friendlyName, Version |-> pkg.Version]

\* localResults after a match of pkg.
AddLocalResult(localResults, pkg, friendlyName) ==
    IF pkg.Name \in DOMAIN localResults
    THEN [localResults EXCEPT ![pkg.Name].Versions = Append(@, VersionOf(pkg, friendlyName))]
    ELSE (pkg.Name :> [Versions |-> <<VersionOf(pkg, friendlyName)>>, SubPackages |-> <<>>])
         @@ localResults

\* localSubPackages after "gather all subpackage names" for pkg.
AddLocalSubPackage(localSubPackages, pkg) ==
    IF pkg.Origin # <<>> /\ pkg.Origin # pkg.Name
    THEN IF pkg.Origin \in DOMAIN localSubPackages
         THEN [localSubPackages EXCEPT ![pkg.Origin] = Append(@, pkg.Name)]
         ELSE (pkg.Origin :> <<pkg.Name>>) @@ localSubPackages
    ELSE localSubPackages

\* The loop over queryStrings for one record, from query number j on.
RECURSIVE QueryLoop(_, _, _, _, _, _)
QueryLoop(loc, pkg, queryStrings, matchAsRegex, friendlyName, j) ==
    IF j > Len(queryStrings) THEN loc
    ELSE QueryLoop(
           [localResults |->
              IF MatchFound(queryStrings[j], pkg.Name, matchAsRegex)
              THEN AddLocalResult(loc.localResults, pkg, friendlyName)
              ELSE loc.localResults,
            localSubPackages |-> AddLocalSubPackage(loc.localSubPackages, pkg)],
           pkg, queryStrings, matchAsRegex, friendlyName, j + 1)

\* The line the no-query path prints for a record.
RecordLine(pkg, friendlyName, showParentPackageInformation) ==
    [kind |-> "record", name |-> pkg.Name, meta |-> VersionOf(pkg, friendlyName),
     parent |-> IF showParentPackageInformation THEN <<pkg.Origin>> ELSE <<>>]

\* One iteration of `for _, _package := range packages`.
Worker_Package(w) ==
    /\ ~exited
    /\ g[w].pc = "loop"
    /\ g[w].i <= Len(apkIndex[w])
    /\ LET pkg == apkIndex[w][g[w].i] IN
         IF Len(args.queryStrings) > 0
         THEN /\ LET loc == QueryLoop([localResults |-> g[w].localResults,
                                       localSubPackages |-> g[w].localSubPackages],
                                      pkg, args.queryStrings, args.matchAsRegex, w, 1)
                 IN g' = [g EXCEPT ![w].i = @ + 1,
                                   ![w].localResults = loc.localResults,
                                   ![w].localSubPackages = loc.localSubPackages]
              /\ UNCHANGED stdout
         ELSE /\ g' = [g EXCEPT ![w].i = @ + 1]
              /\ stdout' = Append(stdout,
                             RecordLine(pkg, w, args.showParentPackageInformation))
    /\ UNCHANGED <<args, apkIndex, rcv, results, subPackages, closed, mpc, exited,
                   aggVars, fn>>

\* After the loop: os.RemoveAll of the temporary directory, if there is one.
Worker_Cleanup(w) ==
    /\ ~exited
    /\ g[w].pc = "loop"
    /\ g[w].i > Len(apkIndex[w])
    /\ \E outcome \in IF g[w].localFile THEN {"ok"} ELSE {"ok", "removeError"} :
         /\ g' = [g EXCEPT ![w].pc = IF outcome = "ok" THEN "sendResults" ELSE @,
                           ![w].fail = IF outcome = "ok" THEN @ ELSE outcome]
         /\ stdout' = IF outcome = "ok" THEN stdout
                      ELSE Append(stdout, DiagLine(outcome, w))
         /\ exited' = (outcome = "removeError")
    /\ UNCHANGED <<args, apkIndex, rcv, results, subPackages, closed, mpc, aggVars, fn>>

\* A receiver with a received item: it goes through the item's keys.
Received(item) ==
    [pc |-> IF DOMAIN item = {} THEN "recv" ELSE "merge", item |-> item,
     todo |-> DOMAIN item]

\* resultsChan <- localResults, taken by the results receiver.
Worker_SendResults(w) ==
    /\ ~exited
    /\ g[w].pc = "sendResults"
    /\ rcv["results"].pc = "recv"
    /\ g' = [g EXCEPT ![w].pc = "sendSubPackages"]
    /\ rcv' = [rcv EXCEPT !["results"] = Received(g[w].localResults)]
    /\ UNCHANGED <<args, apkIndex, results, subPackages, closed, mpc, exited, stdout,
                   aggVars, fn>>

\* subPackagesChan <- localSubPackages, taken by the sub-packages receiver;
\* the worker returns (deferred wg.Done).
Worker_SendSubPackages(w) ==
    /\ ~exited
    /\ g[w].pc = "sendSubPackages"
    /\ rcv["subPackages"].pc = "recv"
    /\ g' = [g EXCEPT ![w].pc = "done"]
    /\ rcv' = [rcv EXCEPT !["subPackages"] = Received(g[w].localSubPackages)]
    /\ UNCHANGED <<args, apkIndex, results, subPackages, closed, mpc, exited, stdout,
                   aggVars, fn>>

\* What the results receiver stores for one key of a received map.
MergedResult(res, name, pkgInfo) ==
    IF name \in DOMAIN res
    THEN [res[name] EXCEPT !.Versions = @ \o pkgInfo.Versions]
    ELSE pkgInfo

\* The receiver's position once key k of its item is done.
AfterKey(r, k) ==
    [r EXCEPT !.todo = @ \ {k}, !.pc = IF r.todo = {k} THEN "recv" ELSE "merge"]

\* The results receiver: one key of the received map, under resultsMutex.
ResultsReceiver_Merge ==
    /\ ~exited
    /\ rcv["results"].pc = "merge"
    /\ \E k \in rcv["results"].todo :
         /\ results' = (k :> MergedResult(results, k, rcv["results"].item[k])) @@ results
         /\ rcv' = [rcv EXCEPT !["results"] = AfterKey(@, k)]
    /\ UNCHANGED <<args, apkIndex, g, subPackages, closed, mpc, exited, stdout, aggVars, fn>>

\* The sub-packages receiver: one key, under subPackagesMutex.
SubPackagesReceiver_Merge ==
    /\ ~exited
    /\ rcv["subPackages"].pc = "merge"
    /\ \E k \in rcv["subPackages"].todo :
         /\ subPackages' =
              (k :> ((IF k \in DOMAIN subPackages THEN subPackages[k] ELSE <<>>)
                     \o rcv["subPackages"].item[k])) @@ subPackages
         /\ rcv' = [rcv EXCEPT !["subPackages"] = AfterKey(@, k)]
    /\ UNCHANGED <<args, apkIndex, g, results, closed, mpc, exited, stdout, aggVars, fn>>

\* The errors receiver: fmt.Println("Encountered errors:", err)
ErrorsReceiver_Print ==
    /\ ~exited
    /\ rcv["errors"].pc = "merge"
    /\ stdout' = Append(stdout, rcv["errors"].item)
    /\ rcv' = [rcv EXCEPT !["errors"] = NewReceiver]
    /\ UNCHANGED <<args, apkIndex, g, results, subPackages, closed, mpc, exited, aggVars, fn>>

\* `for ... := range ch` ends once the channel is closed: receiverWg.Done.
Receiver_Exit(c) ==
    /\ ~exited
    /\ rcv[c].pc = "recv"
    /\ c \in closed
    /\ rcv' = [rcv EXCEPT ![c].pc = "done"]
    /\ UNCHANGED <<args, apkIndex, g, results, subPackages, closed, mpc, exited, stdout,
                   aggVars, fn>>

\* wg.Wait() returns: every worker has called wg.Done.
WorkersDone == \A w \in Sources : g[w].pc \in {"done", "failed"}

\* A receiverWg.Wait() that returns at once.
ReceiversNotAwaited == TRUE

\* receiverWg.Wait() returns: every receiver has called receiverWg.Done.
ReceiversDone == \A c \in Channels : rcv[c].pc = "done"

Main_WgWait ==
    /\ ~exited
    /\ mpc = "wgWait"
    /\ WorkersDone
    /\ mpc' = "closeResults"
    /\ UNCHANGED <<args, apkIndex, g, rcv, results, subPackages, closed, exited, stdout,
                   aggVars, fn>>

\* close(resultsChan); close(subPackagesChan); close(errorsChan)
Main_Close ==
    /\ ~exited
    /\ mpc \in {"closeResults", "closeSubPackages", "closeErrors"}
    /\ closed' = closed \cup {CASE mpc = "closeResults" -> "results"
                                [] mpc = "closeSubPackages" -> "subPackages"
                                [] mpc = "closeErrors" -> "errors"}
    /\ mpc' = CASE mpc = "closeResults" -> "closeSubPackages"
                [] mpc = "closeSubPackages" -> "closeErrors"
                [] mpc = "closeErrors" -> "receiverWgWait"
    /\ UNCHANGED <<args, apkIndex, g, rcv, results, subPackages, exited, stdout, aggVars, fn>>

Main_ReceiverWgWait ==
    /\ ~exited
    /\ mpc = "receiverWgWait"
    /\ ReceiversDone
    /\ mpc' = "sort"
    /\ UNCHANGED <<args, apkIndex, g, rcv, results, subPackages, closed, exited, stdout,
                   aggVars, fn>>

\* removeDuplicates: the first occurrence of every item, in order.
RECURSIVE removeDuplicates(_)
removeDuplicates(stringsList) ==
    IF stringsList = <<>> THEN <<>>
    ELSE LET front == removeDuplicates(SubSeq(stringsList, 1, Len(stringsList) - 1))
             last == stringsList[Len(stringsList)]
         IN  IF last \in Range(front) THEN front ELSE Append(front, last)

\* What the sort loop leaves for one key.
MainSortedEntries(name, pkgInfo) ==
    IF Len(pkgInfo.Versions) > 1
    THEN {[Versions |-> v,
           SubPackages |-> removeDuplicates(IF name \in DOMAIN subPackages
                                            THEN subPackages[name] ELSE <<>>)] :
            v \in SortedByVersion(pkgInfo.Versions)}
    ELSE {pkgInfo}

\* "now sort the versions within the per package info"
Main_Sort ==
    /\ ~exited
    /\ mpc = "sort"
    /\ results' \in
         {f \in [DOMAIN results ->
                   UNION {MainSortedEntries(k, results[k]) : k \in DOMAIN results}] :
             \A k \in DOMAIN results : f[k] \in MainSortedEntries(k, results[k])}
    /\ mpc' = "trim"
    /\ UNCHANGED <<args, apkIndex, g, rcv, subPackages, closed, exited, stdout, aggVars, fn>>

\* `if !*listAllVersions`: all versions apart from the last index are deleted.
Main_Trim(listAllVersions) ==
    /\ ~exited
    /\ mpc = "trim"
    /\ results' = TrimResult(results, listAllVersions)
    /\ mpc' = "print"
    /\ UNCHANGED <<args, apkIndex, g, rcv, subPackages, closed, exited, stdout, aggVars, fn>>

\* The JSON document or the text lines of the results.
Main_Print(outputJSON, showSubPackageInformation) ==
    /\ ~exited
    /\ mpc = "print"
    /\ stdout' = stdout \o
         (IF outputJSON THEN JSONDoc(results)
          ELSE TextLines(results, SortedNames(DOMAIN results),
                         args.showParentPackageInformation,
                         showSubPackageInformation, args.matchAsRegex))
    /\ mpc' = "done"
    /\ UNCHANGED <<args, apkIndex, g, rcv, results, subPackages, closed, exited, aggVars, fn>>

MainNext ==
    \/ \E w \in Sources : Worker_Fetch(w)
    \/ \E w \in Sources : Worker_Decode(w)
    \/ \E w \in Sources : Worker_SendError(w)
    \/ \E w \in Sources : Worker_Package(w)
    \/ \E w \in Sources : Worker_Cleanup(w)
    \/ \E w \in Sources : Worker_SendResults(w)
    \/ \E w \in Sources : Worker_SendSubPackages(w)
    \/ ResultsReceiver_Merge
    \/ SubPackagesReceiver_Merge
    \/ ErrorsReceiver_Print
    \/ \E c \in Channels : Receiver_Exit(c)
    \/ Main_WgWait
    \/ Main_Close
    \/ Main_ReceiverWgWait
    \/ Main_Sort
    \/ \E listAllVersions \in BOOLEAN : Main_Trim(listAllVersions)
    \/ \E outputJSON, showSubPackageInformation \in BOOLEAN :
          Main_Print(outputJSON, showSubPackageInformation)

\* The driver starts with the aggregator unused.
InitMain == AggInit /\ MainInit /\ FnIdle

SpecMain == InitMain /\ [][MainNext]_vars

\* The driver under the Go scheduler: a goroutine that can run is run, so a
\* run does not stop while main, a worker or a receiver has a step to take.
SpecMainLive == InitMain /\ [][MainNext]_vars /\ WF_vars(MainNext)

\* ====================================================== queries on their own
\* The query type with an optional compiled pattern (query{s, r}), its
\* constructors, match and matchQueries; and matchReference over Matchers.

\* Queries built in one run.
MaxQueries == 2

\* The strings queries are built from: names, patterns, and strings that do
\* not compile.
Patterns ==
    { <<>>, <<"a">>, <<".">>, <<"a", "b">>, <<".", "b">>, <<"(">>, <<"a", "(">> }

\* A nil *regexp.Regexp and a nil *query.
NilRegexp == [nil |-> TRUE, expr |-> <<>>]
NilQuery == [nil |-> TRUE, s |-> <<>>, r |-> NilRegexp]

\* regexp.Compile(expr): (regex, err)
regexpCompile(expr) ==
    IF isValidRegex(expr)
    THEN [regex |-> [nil |-> FALSE, expr |-> expr], err |-> FALSE]
    ELSE [regex |-> NilRegexp, err |-> TRUE]

\* NewQueryString of the query type: &query{s: ref}
NewQueryString_query(ref) == [nil |-> FALSE, s |-> ref, r |-> NilRegexp]

\* A constructor that keeps the pattern without looking at the error.
NewQueryRegexpUnchecked(ref) ==
    [q |-> [nil |-> FALSE, s |-> <<>>, r |-> [nil |-> FALSE, expr |-> ref]],
     err |-> FALSE]

\* NewQueryRegexp(ref): (*query, error)
NewQueryRegexp(ref) ==
    LET c == regexpCompile(ref) IN
    IF c.err THEN [q |-> NilQuery, err |-> TRUE]
    ELSE [q |-> [nil |-> FALSE, s |-> <<>>, r |-> c.regex], err |-> FALSE]

\* (*query).match
match(q, ref) ==
    IF ~q.r.nil THEN RegexMatchString(q.r.expr, ref) ELSE q.s = ref

\* A loop that returns the outcome of its first query.
matchQueriesFirst(queries, ref, i) ==
    IF i > Len(queries) THEN FALSE ELSE match(queries[i], ref)

\* matchQueries: the first query that matches returns true.
RECURSIVE matchQueriesFrom(_, _, _)
matchQueriesFrom(queries, ref, i) ==
    IF i > Len(queries) THEN FALSE
    ELSE IF match(queries[i], ref) THEN TRUE
    ELSE matchQueriesFrom(queries, ref, i + 1)

matchQueries(queries, ref) == matchQueriesFrom(queries, ref, 1)

\* No construction yet, no match yet.
NoMade == [pattern |-> <<>>, asRegexp |-> FALSE, q |-> NilQuery, err |-> FALSE]
NoMatch == [queries |-> FALSE, reference |-> FALSE, each |-> <<>>]
\* No match decision of the driver yet.
NoFound == [queryString |-> <<>>, name |-> <<>>, matchAsRegex |-> FALSE,
            matchFound |-> FALSE]

InitQueries ==
    /\ AggInit
    /\ MainIdle
    /\ fn = [pc |-> "build", queries |-> <<>>, matchers |-> <<>>, made |-> NoMade,
             ref |-> <<>>, result |-> NoMatch, found |-> NoFound]

\* One construction: NewQueryString(pattern) or NewQueryRegexp(pattern). The
\* caller keeps the query when err is nil; the same string is kept as a
\* Matcher (a queryString, or the compiled pattern itself).
Query_New(pattern, asRegexp) ==
    /\ fn.pc = "build"
    /\ Len(fn.queries) < MaxQueries
    /\ LET made == IF asRegexp THEN NewQueryRegexp(pattern)
                   ELSE [q |-> NewQueryString_query(pattern), err |-> FALSE]
       IN  fn' = [fn EXCEPT
                    !.made = [pattern |-> pattern, asRegexp |-> asRegexp,
                              q |-> made.q, err |-> made.err],
                    !.queries = IF made.err THEN @ ELSE Append(@, made.q),
                    !.matchers = IF made.err THEN @
                                 ELSE Append(@, IF asRegexp THEN CompiledRegexp(pattern)
                                                ELSE NewQueryString(pattern))]
    /\ UNCHANGED <<aggVars, mainVars>>

\* The queries built so far are matched against ref: each on its own, as a
\* sequence with matchQueries, and as Matchers with matchReference.
Query_Match(ref) ==
    /\ fn.pc = "build"
    /\ fn' = [fn EXCEPT
                !.pc = "matched",
                !.ref = ref,
                !.result = [queries |-> matchQueries(fn.queries, ref),
                            reference |-> matchReference(fn.matchers, ref),
                            each |-> [i \in 1..Len(fn.queries) |->
                                         match(fn.queries[i], ref)]]]
    /\ UNCHANGED <<aggVars, mainVars>>

\* The match decision of the driver's query loop for one query string and
\* one package name, with or without --regex.
Query_MatchFound(queryString, name, matchAsRegex) ==
    /\ fn.pc = "build"
    /\ fn.queries = <<>>
    /\ fn.made = NoMade
    /\ fn' = [fn EXCEPT
                !.pc = "decided",
                !.found = [queryString |-> queryString, name |-> name,
                           matchAsRegex |-> matchAsRegex,
                           matchFound |-> MatchFound(queryString, name, matchAsRegex)]]
    /\ UNCHANGED <<aggVars, mainVars>>

QueriesNext ==
    \/ \E pattern \in Patterns, asRegexp \in BOOLEAN : Query_New(pattern, asRegexp)
    \/ \E ref \in Names : Query_Match(ref)
    \/ \E queryString \in Patterns, name \in Patterns, matchAsRegex \in BOOLEAN :
          Query_MatchFound(queryString, name, matchAsRegex)

SpecQueries == InitQueries /\ [][QueriesNext]_vars

\* ======================================================== the index request
\* fetchAPKIndex (load.go) and the request the channel-based driver builds
\* for a source (main.go): what goes on the wire for an index, a reference
\* and a token.

WOLFI == "wolfi os"
APKIndices == {"wolfi os", "enterprise packages", "extra packages", "local"}

\* References, as the pieces strings.SplitAfterN(ref, "://", 2) looks at.
Refs ==
    { <<"https", "://", "host/APKINDEX.tar.gz">>,
      <<"http", "://", "host/APKINDEX.tar.gz">>,
      <<"https", "://", "[host/APKINDEX.tar.gz">>,
      <<"oci", "://", "host/APKINDEX.tar.gz">>,
      <<"HTTPS", "://", "host/APKINDEX.tar.gz">>,
      <<"", "://", "host/APKINDEX.tar.gz">>,
      <<"/tmp/APKINDEX.tar.gz">>,
      <<"">> }

\* http.NewRequest accepts the reference: its URL parses (a host that opens a
\* bracket and never closes it does not).
urlOK(ref) == ref[Len(ref)] # "[host/APKINDEX.tar.gz"

\* Values of httpBasicAuthPassword.
Tokens == {"", "token1", "token2"}

\* The Scheme values: HTTP is declared with the value "https".
HTTPS == "https"
HTTP == "https"
FILE == "file"

\* A parseScheme that takes every reference it does not know for a file.
parseSchemeDefaultFile(ref) ==
    IF \E i \in 1..Len(ref) : ref[i] = "://"
    THEN LET sch == ref[1] \o ref[2] IN
         CASE sch = "http://" -> [scheme |-> HTTP, err |-> FALSE]
           [] sch = "https://" -> [scheme |-> HTTPS, err |-> FALSE]
           [] OTHER -> [scheme |-> FILE, err |-> FALSE]
    ELSE [scheme |-> FILE, err |-> FALSE]

\* parseScheme(ref): (Scheme, error)
parseScheme(ref) ==
    IF \E i \in 1..Len(ref) : ref[i] = "://"
    THEN LET sch == ref[1] \o ref[2] IN
         CASE sch = "http://" -> [scheme |-> HTTP, err |-> FALSE]
           [] sch = "https://" -> [scheme |-> HTTPS, err |-> FALSE]
           [] OTHER -> [scheme |-> "", err |-> TRUE]
    ELSE [scheme |-> FILE, err |-> FALSE]

\* base64 of "user:" + password (an injective encoding of the password).
EncodedAuth(httpBasicAuthPassword) == <<"base64", "user:", httpBasicAuthPassword>>

\* An Authorization header set for every index when there is a token.
AuthHeaderForAll(index, httpBasicAuthPassword) ==
    IF httpBasicAuthPassword # ""
    THEN {<<"Authorization", <<"Basic", EncodedAuth(httpBasicAuthPassword)>> >>}
    ELSE {}

\* "Add the auth token to the request header but only for non public
\* repositories"
AuthHeader(index, httpBasicAuthPassword) ==
    IF httpBasicAuthPassword # "" /\ index # WOLFI
    THEN {<<"Authorization", <<"Basic", EncodedAuth(httpBasicAuthPassword)>> >>}
    ELSE {}

\* The request fetchAPKIndex builds in its HTTPS case.
fetchRequest(index, ref, httpBasicAuthPassword) ==
    [method |-> "GET", url |-> ref,
     header |-> AuthHeader(index, httpBasicAuthPassword)
                \cup {<<"Accept", "application/gzip">>, <<"User-Agent", "UserAgent">>}]

\* The request a worker of the channel-based driver builds.
mainRequest(friendlyName, apkIndexURL, httpBasicAuthPassword) ==
    [method |-> "GET", url |-> apkIndexURL,
     header |-> (IF httpBasicAuthPassword # "" /\ friendlyName # "wolfi os"
                 THEN {<<"Authorization", <<"Basic", EncodedAuth(httpBasicAuthPassword)>> >>}
                 ELSE {})
                \cup {<<"Accept", "application/gzip">>, <<"User-Agent", "curl/7.68.0">>}]

InitFetch ==
    /\ AggInit
    /\ MainIdle
    /\ fn \in [pc : {"call"}, index : APKIndices, ref : Refs,
               httpBasicAuthPassword : Tokens, by : {"none"}, sent : {<<>>},
               opened : {FALSE}, stream : {"nil"}, err : {"nil"}]

\* fetchAPKIndex(index, ref, httpBasicAuthPassword); respOK is the outcome of
\* DefaultHTTPClient.Do or of os.Open.
Fetch_fetchAPKIndex(respOK) ==
    /\ fn.pc = "call"
    /\ LET sch == parseScheme(fn.ref)
           https == ~sch.err /\ sch.scheme = HTTPS
           file == ~sch.err /\ sch.scheme # HTTPS /\ sch.scheme = FILE
       IN
         fn' = [fn EXCEPT
                  !.pc = "returned",
                  !.by = "fetchAPKIndex",
                  !.sent = IF https /\ urlOK(fn.ref)
                           THEN <<fetchRequest(fn.index, fn.ref, fn.httpBasicAuthPassword)>>
                           ELSE <<>>,
                  !.opened = file,
                  !.stream = IF https /\ urlOK(fn.ref) /\ respOK THEN "resp.Body"
                             ELSE IF file /\ respOK THEN "file"
                             ELSE "nil",
                  !.err = IF sch.err THEN "failed to fetch APKIndex data"
                          ELSE IF https
                          THEN IF ~urlOK(fn.ref) THEN "error creating request"
                               ELSE IF respOK THEN "nil"
                               ELSE "failed to download APKINDEX file"
                          ELSE IF file
                          THEN IF respOK THEN "nil" ELSE "failed to open APKINDEX file"
                          ELSE "scheme not support for apk index reference"]
    /\ UNCHANGED <<aggVars, mainVars>>

\* The driver's worker for the same source: a reference that is not a local
\* file is requested with client.Do, and the local file is opened.
Fetch_main(isLocalFile, respOK) ==
    /\ fn.pc = "call"
    /\ fn' = [fn EXCEPT
                !.pc = "returned",
                !.by = "main",
                !.sent = IF isLocalFile \/ ~urlOK(fn.ref) THEN <<>>
                         ELSE <<mainRequest(fn.index, fn.ref, fn.httpBasicAuthPassword)>>,
                !.opened = isLocalFile,
                !.stream = IF isLocalFile THEN "file"
                           ELSE IF urlOK(fn.ref) /\ respOK THEN "resp.Body" ELSE "nil",
                !.err = IF isLocalFile THEN "nil"
                        ELSE IF ~urlOK(fn.ref) THEN "Error creating request"
                        ELSE IF respOK THEN "nil"
                        ELSE "Failed to download APKINDEX file"]
    /\ UNCHANGED <<aggVars, mainVars>>

FetchNext ==
    \/ \E respOK \in BOOLEAN : Fetch_fetchAPKIndex(respOK)
    \/ \E isLocalFile, respOK \in BOOLEAN : Fetch_main(isLocalFile, respOK)

SpecFetch == InitFetch /\ [][FetchNext]_vars

\* ============================================ claims, name-only aggregator
\* The step in which worker w stores its merged entry and returns.
Stores(w) == wpc[w] = "write" /\ wpc'[w] = "idle"

VersionsOf(R, k) == IF k \in DOMAIN R THEN R[k].Versions ELSE <<>>
SubPackagesOf(R, k) == IF k \in DOMAIN R THEN R[k].SubPackages ELSE <<>>

\* C1: a call whose record name matches the query set (also when its origin is
\* non-empty and matches too) is classified primary and never sub-package, and
\* its store appends exactly one version entry to Result[name].Versions, adds
\* nothing to any sub-package list and touches no other key.
C1_PrimaryMatchAppendsOneVersion ==
    [][ /\ \A w \in Workers :
              (wpc[w] = "idle" /\ wpc'[w] = "lock"
                 /\ matchReference(warg'[w].q, warg'[w].pkgmeta.Name))
              => (warg'[w].isMatched /\ ~warg'[w].isSubPkg)
        /\ \A n \in Names :
              (contrib'[n] # contrib[n]) =>
                 \E w \in Workers : wpc[w] = "idle" /\ wpc'[w] = "lock"
                                    /\ warg'[w].pkgmeta.Name = n
        /\ \A w \in Workers :
              (Stores(w) /\ matchReference(warg[w].q, warg[w].pkgmeta.Name))
              => LET n == warg[w].pkgmeta.Name IN
                   /\ DOMAIN Result' = DOMAIN Result \cup {n}
                   /\ Result'[n].Versions =
                        Append(VersionsOf(Result, n), PackageMeta(warg[w].pkgmeta, w))
                   /\ \A k \in DOMAIN Result' :
                        /\ Result'[k].SubPackages = SubPackagesOf(Result, k)
                        /\ k # n => Result'[k] = Result[k]
      ]_vars

\* C1 witness: a key holds a version entry of a record whose origin is the
\* key itself (name and origin both match) and has no sub-package entry.
C1_Witness ==
    /\ phase = "fanout"
    /\ \E k \in DOMAIN Result :
          /\ Result[k].SubPackages = <<>>
          /\ \E i \in 1..Len(Result[k].Versions) : Result[k].Versions[i].Origin = k

\* C2: no lost updates: whenever every started AddPackageMeta call has
\* returned, the versions list of every name holds exactly the multiset of the
\* version entries the workers contributed for that name.
C2_NoLostUpdates ==
    (phase = "fanout" /\ FanOutDone) =>
        \A n \in Names : SeqToBag(VersionsOf(Result, n)) = contrib[n]

\* C2 witness: both workers contributed to the same name and have returned.
C2_Witness ==
    /\ phase = "fanout" /\ FanOutDone
    /\ \E n \in DOMAIN Result :
          \E i, j \in 1..Len(Result[n].Versions) :
              Result[n].Versions[i].Repository # Result[n].Versions[j].Repository

\* A maximum of the entries of sequence vs under the version comparator.
IsMaxOf(e, vs) ==
    /\ \E i \in 1..Len(vs) : vs[i] = e
    /\ \A i \in 1..Len(vs) : ~GreaterThan(vs[i].Version, e.Version)

\* C5: after Sort, Print with listAll=false leaves exactly one version entry
\* for every key that had at least one, and it is a maximum of the key's
\* entries; with listAll=true every entry is kept.
C5_TrimKeepsLatest ==
    /\ phase = "printed" =>
          \A k \in DOMAIN merged :
              Len(merged[k].Versions) >= 1 =>
                 /\ k \in DOMAIN Result
                 /\ Len(Result[k].Versions) = 1
                 /\ IsMaxOf(Result[k].Versions[1], merged[k].Versions)
    /\ phase = "printedAll" =>
          \A k \in DOMAIN merged :
              /\ k \in DOMAIN Result
              /\ SeqToBag(Result[k].Versions) = SeqToBag(merged[k].Versions)

\* C5 witness: a key was merged with a higher version before a lower one, and
\* the trimmed output has been printed.
C5_Witness ==
    /\ phase = "printed"
    /\ \E k \in DOMAIN merged :
          /\ Len(merged[k].Versions) = 2
          /\ GreaterThan(merged[k].Versions[1].Version, merged[k].Versions[2].Version)

\* The names some processed record justified as a key.
JustifiedKeys ==
    {n \in Names : contrib[n] # EmptyBag \/ subContrib[n] # EmptyBag}

\* C6: a name is a key of Result iff some processed record was a primary
\* match with that name or a sub-package match with that name as origin (once
\* the calls have returned; before, a key is never there unjustified), and a
\* key's entry never has both lists empty.
C6_KeyExistence ==
    /\ phase = "fanout" => DOMAIN Result \subseteq JustifiedKeys
    /\ (phase = "fanout" /\ FanOutDone) => DOMAIN Result = JustifiedKeys
    /\ \A k \in DOMAIN Result :
          Len(Result[k].Versions) > 0 \/ Len(Result[k].SubPackages) > 0

\* C6 witness: a record was dropped (a call was made that justified no key)
\* while another call created a key.
C6_Witness ==
    /\ phase = "fanout" /\ FanOutDone
    /\ calls = 2
    /\ Cardinality(DOMAIN Result) = 1
    /\ \E k \in DOMAIN Result : Len(Result[k].Versions) + Len(Result[k].SubPackages) = 1

\* C8: a call whose record name does not match, whose origin is non-empty and
\* matches, is classified sub-package, and its store appends exactly the
\* record's name to Result[origin].SubPackages (creating the key with an empty
\* versions list when new), creates no key for the record's name and changes
\* no versions list.
C8_SubPackageMatchAppendsName ==
    [][ /\ \A w \in Workers :
              (wpc[w] = "idle" /\ wpc'[w] = "lock"
                 /\ ~matchReference(warg'[w].q, warg'[w].pkgmeta.Name))
              => (warg'[w].isSubPkg /\ ~warg'[w].isMatched)
        /\ \A n \in Names :
              (subContrib'[n] # subContrib[n]) =>
                 \E w \in Workers : wpc[w] = "idle" /\ wpc'[w] = "lock"
                                    /\ warg'[w].pkgmeta.Origin = n
        /\ \A w \in Workers :
              (Stores(w)
                 /\ ~matchReference(warg[w].q, warg[w].pkgmeta.Name)
                 /\ warg[w].pkgmeta.Origin # <<>>
                 /\ matchReference(warg[w].q, warg[w].pkgmeta.Origin))
              => LET o == warg[w].pkgmeta.Origin IN
                   /\ DOMAIN Result' = DOMAIN Result \cup {o}
                   /\ Result'[o].SubPackages =
                        Append(SubPackagesOf(Result, o), warg[w].pkgmeta.Name)
                   /\ \A k \in DOMAIN Result' :
                        /\ Result'[k].Versions = VersionsOf(Result, k)
                        /\ k # o => Result'[k] = Result[k]
      ]_vars

\* C8 witness: a key created by a sub-package match alone: it has no version
\* entry and lists the sub-package, which is no key itself.
C8_Witness ==
    \E k \in DOMAIN Result :
        /\ Result[k].Versions = <<>>
        /\ Len(Result[k].SubPackages) >= 1
        /\ Result[k].SubPackages[1] \notin DOMAIN Result


\* ======================================== claims, full-metadata aggregator
\* C7: a record whose name matches no query, and whose origin is empty or
\* matches no query, is dropped: the call leaves Result unchanged.
C7_UnmatchedRecordDropped ==
    [][ \A q \in QuerySets, pkgmeta \in Packages, repo \in Repos :
          ( /\ AddPackageMetaFull(q, pkgmeta, repo)
            /\ ~matchReference(q, pkgmeta.Name)
            /\ (pkgmeta.Origin = <<>> \/ ~matchReference(q, pkgmeta.Origin)) )
          => Result' = Result
      ]_vars

\* The sub-package entries at the version and source of entry latest.
AtLatest(subs, latest) ==
    LET Same(sp) == sp.Version = latest.Version /\ sp.Repository = latest.Repository
    IN  SelectSeq(subs, Same)

\* C10: after Sort and Print with listAll=false, for every key that retains
\* one version entry, the stored sub-package list is exactly the entries at
\* the (version, source label) of the retained entry.
C10_SubPackagesAtLatestVersion ==
    phase = "printed" =>
        \A k \in DOMAIN Result :
            Len(Result[k].Versions) = 1 =>
                Result[k].SubPackages = AtLatest(Result[k].SubPackages, Result[k].Versions[1])

\* ================================================ claims, channel-based driver

\* Number of versions a key of a map of entries holds.
NumVersions(R, n) == IF n \in DOMAIN R THEN Len(R[n].Versions) ELSE 0

\* The workers that sent their results.
Senders == {w \in Sources : g[w].pc \in {"sendSubPackages", "done"}}

RECURSIVE SumVersions(_, _)
SumVersions(ws, n) ==
    IF ws = {} THEN 0
    ELSE LET w == CHOOSE x \in ws : TRUE
         IN  NumVersions(g[w].localResults, n) + SumVersions(ws \ {w}, n)

RECURSIVE SumSubPackages(_, _)
SumSubPackages(ws, n) ==
    IF ws = {} THEN 0
    ELSE LET w == CHOOSE x \in ws : TRUE
         IN  (IF n \in DOMAIN g[w].localSubPackages
              THEN Len(g[w].localSubPackages[n]) ELSE 0) + SumSubPackages(ws \ {w}, n)

\* C3: barrier. Once main is past receiverWg.Wait() (at the sort step or
\* later), every worker has returned, every receiver has left its loop with
\* nothing in hand, and when the sort step starts the shared maps hold every
\* version and every sub-package name that a worker sent.
C3_Barrier ==
    mpc \in {"sort", "trim", "print", "done"} =>
        /\ \A w \in Sources : g[w].pc \in {"done", "failed"}
        /\ \A c \in Channels : rcv[c].pc = "done" /\ rcv[c].todo = {}
        /\ mpc = "sort" =>
             \A n \in Names :
                /\ NumVersions(results, n) = SumVersions(Senders, n)
                /\ (IF n \in DOMAIN subPackages THEN Len(subPackages[n]) ELSE 0)
                     = SumSubPackages(Senders, n)

\* C3 witness: the sort step is about to start, both workers have sent, and a
\* key holds the versions of the two sources.
C3_Witness ==
    /\ mpc = "sort"
    /\ Senders = Sources
    /\ \E n \in DOMAIN results :
          {results[n].Versions[j].Repository : j \in 1..Len(results[n].Versions)} = Sources

\* The failures of fetching and decoding an index.
FetchOrDecodeFailures == {"downloadError", "tempFileError", "openError", "decodeError"}

\* C4: failure isolation. A worker whose fetch or decode failed does not
\* end the run: the process has not exited.
C4_FailureIsolation ==
    \A w \in Sources : g[w].fail \in FetchOrDecodeFailures => ~exited

\* The records named n among the first k records of an index.
RecordsNamed(index, k, n) == {j \in 1..k : index[j].Name = n}

\* C9: in a worker's local results, a name holds at most as many version
\* entries as records of that name the worker has gone through.
C9_OneVersionPerRecord ==
    \A w \in Sources : \A n \in DOMAIN g[w].localResults :
        Len(g[w].localResults[n].Versions)
            <= Cardinality(RecordsNamed(apkIndex[w], g[w].i - 1, n))

\* The lines of standard output that print a record of source w.
RecordLinesOf(w) ==
    LET OfW(l) == l.kind = "record" /\ l.meta.Repository = w
    IN  SelectSeq(stdout, OfW)

\* C11: no-query bypass. With no query string the result map stays empty,
\* the record lines of one source are never separated by a record line of
\* another source, and at the print step every source that was decoded has
\* printed each of its records once, in decode order.
C11_NoQueryBypass ==
    args.queryStrings = <<>> =>
        /\ results = <<>>
        /\ \A i, j, k \in 1..Len(stdout) :
              (/\ i < j /\ j < k
               /\ stdout[i].kind = "record" /\ stdout[j].kind = "record"
               /\ stdout[k].kind = "record"
               /\ stdout[i].meta.Repository = stdout[k].meta.Repository)
              => stdout[j].meta.Repository = stdout[i].meta.Repository
        /\ mpc = "print" =>
              \A w \in Sources : g[w].pc = "done" =>
                  RecordLinesOf(w) =
                     [n \in 1..Len(apkIndex[w]) |->
                        RecordLine(apkIndex[w][n], w, args.showParentPackageInformation)]

\* C12: fail fast on a bad pattern. With --regex and a query string that is
\* not a valid pattern, no worker gets past its start: nothing is fetched,
\* decoded or classified.
C12_FailFastOnBadPattern ==
    (/\ args.matchAsRegex
     /\ \E n \in 1..Len(args.queryStrings) : ~isValidRegex(args.queryStrings[n]))
    => \A w \in DOMAIN g : g[w].pc = "start" /\ g[w].i = 1

\* =================================================== claims, queries on their own

\* C13: a pattern is rejected when the query is constructed, never when it
\* is matched. NewQueryRegexp of a string that does not compile returns an
\* error and no query; every query that was constructed is non-nil and any
\* pattern it holds compiles; match of each of them returned a boolean.
C13_PatternRejectedAtConstruction ==
    fn.pc \in {"build", "matched"} =>
        /\ (fn.made.asRegexp /\ ~isValidRegex(fn.made.pattern))
              => (fn.made.err /\ fn.made.q = NilQuery)
        /\ \A i \in 1..Len(fn.queries) :
              /\ ~fn.queries[i].nil
              /\ fn.queries[i].r.nil \/ isValidRegex(fn.queries[i].r.expr)
        /\ fn.pc = "matched" =>
              \A i \in 1..Len(fn.queries) : fn.result.each[i] \in BOOLEAN

\* C13 witness: a pattern query was constructed, the last construction was
\* rejected, and the queries have been matched.
C13_Witness ==
    /\ fn.pc = "matched"
    /\ fn.made.asRegexp /\ fn.made.err
    /\ \E i \in 1..Len(fn.queries) : ~fn.queries[i].r.nil

\* C14: matching a sequence of queries is a logical OR, whatever the order.
\* matchQueries and matchReference return true iff some query of the
\* sequence matches, the same for every permutation, and false for the empty
\* sequence.
C14_MatchIsOrderIndependentOr ==
    fn.pc = "matched" =>
        /\ fn.result.queries
              = (\E i \in 1..Len(fn.queries) : match(fn.queries[i], fn.ref))
        /\ fn.result.reference
              = (\E i \in 1..Len(fn.matchers) : MatchString(fn.matchers[i], fn.ref))
        /\ \A p \in Perms(fn.queries) : matchQueries(p, fn.ref) = fn.result.queries
        /\ \A p \in Perms(fn.matchers) : matchReference(p, fn.ref) = fn.result.reference
        /\ fn.queries = <<>> => ~fn.result.queries /\ ~fn.result.reference

\* C14 witness: two queries, only the second matches the name.
C14_Witness ==
    /\ fn.pc = "matched"
    /\ Len(fn.queries) = 2
    /\ ~match(fn.queries[1], fn.ref)
    /\ match(fn.queries[2], fn.ref)
    /\ fn.result.queries /\ fn.result.reference

\* ===================================== claims, name-only aggregator (continued)

\* C15: Sort is idempotent. A second Sort right after the first leaves the
\* versions order and the sub-package list of every key as they are.
C15_SortIdempotent ==
    [][(Sort /\ phase = "sorted") => Result' = Result]_vars

\* C15 witness: Sort has run twice on a map in which a key holds the same
\* version from two sources, two entries the comparator does not order.
C15_Witness ==
    /\ phase = "resorted"
    /\ \E k \in DOMAIN Result :
          /\ Len(Result[k].Versions) = 2
          /\ Result[k].Versions[1].Version = Result[k].Versions[2].Version
          /\ Result[k].Versions[1].Repository # Result[k].Versions[2].Repository

\* The names recorded as sub-packages of key k by the calls made.
SubNamesOf(k) == BagToSet(subContrib[k])

\* C16: after the fan-out, Sort and Print with listAll=false, the entry of
\* every key lists the name of every record that was classified as a
\* sub-package of it (origin matches, own name does not), whatever the
\* number of versions of the key; the JSON document shows the same list.
C16_SubPackagesListed ==
    phase = "printed" =>
        \A k \in Names : \A n \in SubNamesOf(k) :
            /\ k \in DOMAIN Result
            /\ n \in Range(Result[k].SubPackages)
            /\ (out # <<>> /\ out[1].kind = "json")
                  => n \in Range(out[1].doc[k].SubPackages)

\* C16 witness: JSON output in which a key with one version entry lists a
\* sub-package.
C16_Witness ==
    /\ phase = "printed"
    /\ out # <<>> /\ out[1].kind = "json"
    /\ \E k \in DOMAIN Result :
          /\ Len(Result[k].Versions) = 1
          /\ SubNamesOf(k) # {}
          /\ Range(out[1].doc[k].SubPackages) = SubNamesOf(k)

\* Every query of the sequence is an exact-name matcher.
AllExact(q) == \A i \in 1..Len(q) : q[i].kind = "string"

\* The strings of the queries of a sequence.
QueryStrings(q) == {q[i].s : i \in 1..Len(q)}

\* C17: with exact-name matchers only, every key is one of the query
\* strings. Keys appear only when a call stores; a call whose queries are
\* all exact creates no key other than one of its query strings, and when
\* the record's name is one of them that name is a key afterwards.
C17_KeysAreQueryStrings ==
    [][ /\ DOMAIN Result' # DOMAIN Result => \E w \in Workers : Stores(w)
        /\ \A w \in Workers :
              (Stores(w) /\ AllExact(warg[w].q)) =>
                 /\ (DOMAIN Result' \ DOMAIN Result) \subseteq QueryStrings(warg[w].q)
                 /\ warg[w].pkgmeta.Name \in QueryStrings(warg[w].q)
                       => warg[w].pkgmeta.Name \in DOMAIN Result'
      ]_vars

\* C17 witness: the key "b", which only the set of two exact queries
\* matches, holds a version.
C17_Witness ==
    /\ <<"b">> \in DOMAIN Result
    /\ Len(Result[<<"b">>].Versions) > 0

\* Number of lines of a kind in a sequence of output lines.
NumLines(lines, kind) == Cardinality({i \in 1..Len(lines) : lines[i].kind = kind})

\* C18: text mode sub-package display. In the text output of Print there is
\* one "Sub packages:" sub-header per key with a non-empty sub-package list
\* when showSubPkgInfo is set, and none when it is not, whatever the other
\* flags are (regex mode included).
C18_SubPackagesShownIffFlagAndNonEmpty ==
    [][ \A listAll, showParentPkgInfo, showSubPkgInfo, matchAsRegex \in BOOLEAN :
           PrintOutput(listAll, FALSE, showParentPkgInfo, showSubPkgInfo, matchAsRegex)
           => NumLines(out', "subheader") =
                 IF showSubPkgInfo
                 THEN Cardinality({k \in DOMAIN Result' : Len(Result'[k].SubPackages) > 0})
                 ELSE 0
      ]_vars

\* ==================================================== claims, the index request

\* The request carries an Authorization header.
HasAuthorization(req) == \E h \in req.header : h[1] = "Authorization"

\* C19: the credential never reaches the public source. A request that was
\* sent carries the Authorization header iff the token is non-empty and the
\* index is not WOLFI, and the header is built from that token; the request
\* sent for WOLFI is the one that would be sent under every other token.
C19_NoCredentialToPublicSource ==
    fn.pc = "returned" =>
        \A i \in 1..Len(fn.sent) :
            /\ HasAuthorization(fn.sent[i])
                  <=> (fn.httpBasicAuthPassword # "" /\ fn.index # WOLFI)
            /\ \A h \in fn.sent[i].header :
                  h[1] = "Authorization"
                     => h[2] = <<"Basic", EncodedAuth(fn.httpBasicAuthPassword)>>
            /\ fn.index = WOLFI =>
                  \A t \in Tokens :
                     fn.sent[i] = IF fn.by = "main"
                                  THEN mainRequest(WOLFI, fn.ref, t)
                                  ELSE fetchRequest(WOLFI, fn.ref, t)

\* C19 witness: fetchAPKIndex has sent a request for the WOLFI index while
\* holding a token.
C19_Witness ==
    /\ fn.pc = "returned"
    /\ fn.by = "fetchAPKIndex"
    /\ fn.index = WOLFI
    /\ fn.httpBasicAuthPassword # ""
    /\ Len(fn.sent) = 1

\* ==================================== claims, channel-based driver (continued)

\* C20: a run in which every source fails to be fetched or decoded does not
\* crash: the process has not exited, and the print step finds an empty
\* result map.
C20_TotalFailureStillPrints ==
    (\A w \in DOMAIN g : g[w].fail \in FetchOrDecodeFailures) =>
        /\ ~exited
        /\ mpc \in {"print", "done"} => results = <<>>

\* ======================================== claims, queries on their own (continued)

\* C21: query modes are never mixed. The driver's match decision in pattern
\* mode is the match of the compiled pattern and nothing else, and in exact
\* mode it is string equality; a query object matches by its pattern when it
\* holds one and by equality otherwise.
C21_ModesNeverMixed ==
    /\ fn.pc = "decided" =>
          fn.found.matchFound =
             IF fn.found.matchAsRegex
             THEN isValidRegex(fn.found.queryString)
                  /\ RegexMatchString(fn.found.queryString, fn.found.name)
             ELSE fn.found.queryString = fn.found.name
    /\ fn.pc = "matched" =>
          \A i \in 1..Len(fn.queries) :
             fn.result.each[i] =
                IF fn.queries[i].r.nil THEN fn.queries[i].s = fn.ref
                ELSE RegexMatchString(fn.queries[i].r.expr, fn.ref)

\* ============================== claims, name-only aggregator (lock and frames)

\* The callers inside the section between p.m.Lock() and the return.
InSection == {w \in Workers : wpc[w] \in {"locked", "write"}}

\* C22: lock discipline of AddPackageMeta. At most one caller is inside the
\* check-exists / create-or-append section and it is the holder of the
\* mutex; what a caller read under the lock is still what the map holds when
\* it stores; a caller waiting for or holding the lock has classified its
\* record; a caller outside a call (fetching, decoding, or returned after a
\* dropped record) does not hold the lock.
C22_LockDiscipline ==
    /\ Cardinality(InSection) <= 1
    /\ \A w \in Workers : (m = w) <=> (w \in InSection)
    /\ \A w \in Workers :
          wpc[w] = "write" =>
             LET key == TargetKey(warg[w]) IN
               /\ warg[w].exists = (key \in DOMAIN Result)
               /\ warg[w].exists => warg[w].pkgInfoTemp = Result[key]
    /\ \A w \in Workers :
          wpc[w] \in {"lock", "locked", "write"} =>
             /\ warg[w].isMatched # warg[w].isSubPkg
             /\ Classify(warg[w].q, warg[w].pkgmeta) # "return"
    /\ \A w \in Workers : wpc[w] = "idle" => m # w

\* C22 witness: one caller is about to store on a key while the other waits
\* for the lock with a record for the same key.
C22_Witness ==
    \E w, x \in Workers :
        /\ wpc[w] = "write"
        /\ wpc[x] = "lock"
        /\ TargetKey(warg[w]) = TargetKey(warg[x])

\* ================================ claims, full-metadata aggregator (continued)

\* A full-metadata map seen as a name-only one: sub-packages by name.
NameOnly(R) ==
    [k \in DOMAIN R |->
       [Versions |-> R[k].Versions,
        SubPackages |-> [i \in 1..Len(R[k].SubPackages) |-> R[k].SubPackages[i].Name]]]

\* The map the name-only AddPackageMeta leaves when called on map R.
AddedNameOnly(R, q, pkgmeta, repo) ==
    LET c == Classify(q, pkgmeta)
        a0 == [NoArg EXCEPT !.q = q, !.pkgmeta = pkgmeta,
                            !.isMatched = (c = "matched"), !.isSubPkg = (c = "subpkg")]
        key == TargetKey(a0)
        a == IF key \in DOMAIN R
             THEN [a0 EXCEPT !.exists = TRUE, !.pkgInfoTemp = R[key]]
             ELSE a0
    IN  IF c = "return" THEN R ELSE (key :> MergedEntry(a, repo)) @@ R

\* C23: the two AddPackageMeta implementations classify alike. Each call of
\* the full-metadata variant leaves, by names, the map the name-only variant
\* leaves when called with the same arguments on the same map.
C23_VariantsClassifyAlike ==
    [][ \A q \in QuerySets, pkgmeta \in Packages, repo \in Repos :
           AddPackageMetaFull(q, pkgmeta, repo)
           => NameOnly(Result') = AddedNameOnly(NameOnly(Result), q, pkgmeta, repo)
      ]_vars

\* C24: Sort of the full-metadata variant. After the call every key with
\* more than one version entry holds, in the map, a versions list in
\* ascending order under the comparator that is a permutation of the list
\* before the call.
C24_SortFullOrdersVersions ==
    phase = "sorted" =>
        /\ DOMAIN Result = DOMAIN merged
        /\ \A k \in DOMAIN Result :
              Len(merged[k].Versions) > 1 =>
                 /\ OrderedByVersion(Result[k].Versions)
                 /\ SeqToBag(Result[k].Versions) = SeqToBag(merged[k].Versions)

\* C24 witness: a key whose two versions were stored latest first has them
\* earliest first after Sort.
C24_Witness ==
    /\ phase = "sorted"
    /\ \E k \in DOMAIN merged :
          /\ Len(merged[k].Versions) = 2
          /\ merged[k].Versions[1].Version > merged[k].Versions[2].Version
          /\ Result[k].Versions[1].Version < Result[k].Versions[2].Version

\* C25: Sort of the name-only variant. After the call every key's
\* sub-package list is strictly ascending by name, hence free of
\* duplicates, and holds exactly the set of names it held before the call.
C25_SubPackagesDedupedAndSorted ==
    phase \in {"sorted", "resorted"} =>
        \A k \in DOMAIN Result :
            /\ \A i \in 1..(Len(Result[k].SubPackages) - 1) :
                  StrLess(Result[k].SubPackages[i], Result[k].SubPackages[i + 1])
            /\ Range(Result[k].SubPackages) = Range(merged[k].SubPackages)

\* C25 witness: a name that was appended twice under one key is listed
\* once after Sort.
C25_Witness ==
    /\ phase = "sorted"
    /\ \E k \in DOMAIN Result :
          /\ Len(merged[k].SubPackages) = 2
          /\ merged[k].SubPackages[1] = merged[k].SubPackages[2]
          /\ Len(Result[k].SubPackages) = 1

\* The names of the records of the decoded indices whose origin is k and
\* whose name differs from the origin.
SubRecordNames(k) ==
    {n \in Names : \E w \in Senders : \E j \in 1..Len(apkIndex[w]) :
        /\ apkIndex[w][j].Name = n
        /\ apkIndex[w][j].Origin = k
        /\ n # k}

\* C26: in the driver, once the sort step is over, the sub-package list of
\* every matched package has no duplicate and holds the names of the records
\* whose origin is that package and whose name differs from the origin,
\* whether the package has one version entry or several.
C26_SubPackagesOfEveryMatch ==
    mpc \in {"trim", "print", "done"} =>
        \A k \in DOMAIN results :
            /\ Cardinality(Range(results[k].SubPackages)) = Len(results[k].SubPackages)
            /\ Range(results[k].SubPackages) = SubRecordNames(k)

\* The index of the source that the version entry v is labelled with holds
\* a record named name with the fields of v.
BuiltFromSource(name, v) ==
    /\ v.Repository \in Sources
    /\ \E j \in 1..Len(apkIndex[v.Repository]) :
          LET pkg == apkIndex[v.Repository][j] IN
             /\ pkg.Name = name
             /\ pkg.Version = v.Version
             /\ pkg.Origin = v.Origin
             /\ pkg.BuildTime = v.BuildTime

\* C27: source attribution. Every version entry of a worker's local map
\* carries that worker's label, and every version entry of the result map
\* and every record line printed on the no-query path carries the label of
\* a source whose index holds the record it was built from.
C27_SourceAttribution ==
    /\ \A w \in Sources : \A k \in DOMAIN g[w].localResults :
          \A i \in 1..Len(g[w].localResults[k].Versions) :
             /\ g[w].localResults[k].Versions[i].Repository = w
             /\ BuiltFromSource(k, g[w].localResults[k].Versions[i])
    /\ \A k \in DOMAIN results : \A i \in 1..Len(results[k].Versions) :
          BuiltFromSource(k, results[k].Versions[i])
    /\ \A i \in 1..Len(stdout) :
          stdout[i].kind = "record" => BuiltFromSource(stdout[i].name, stdout[i].meta)

\* C27 witness: the two sources hold different versions of one package and
\* the result map holds both, each under its own source's label.
C27_Witness ==
    /\ mpc = "sort"
    /\ \E k \in DOMAIN results : \E i, j \in 1..Len(results[k].Versions) :
          /\ results[k].Versions[i].Repository = "wolfi os"
          /\ results[k].Versions[j].Repository = "enterprise packages"
          /\ results[k].Versions[i].Version # results[k].Versions[j].Version
          /\ ~BuiltFromSource(k, [results[k].Versions[i] EXCEPT
                                     !.Repository = "enterprise packages"])

\* C28: frame of Sort and of the trim step of Print (name-only variant).
\* A step of either keeps the key set of the result map and every
\* sub-package list's set of names, retains version entries only as they
\* were, and leaves a key without version entries without version entries.
C28_SortAndTrimFrame ==
    [][ phase' # phase =>
          /\ DOMAIN Result' = DOMAIN Result
          /\ \A k \in DOMAIN Result :
                /\ Range(Result'[k].SubPackages) = Range(Result[k].SubPackages)
                /\ Range(Result'[k].Versions) \subseteq Range(Result[k].Versions)
                /\ Len(Result'[k].Versions) <= Len(Result[k].Versions)
                /\ Len(Result[k].Versions) = 0 => Len(Result'[k].Versions) = 0
                /\ phase' \in {"sorted", "resorted", "printedAll"} =>
                      SeqToBag(Result'[k].Versions) = SeqToBag(Result[k].Versions) ]_vars

\* C28 witness: a key created by sub-package matches only, holding one name
\* twice, has gone through Sort and through Print with listAll false.
C28_Witness ==
    /\ phase = "printed"
    /\ \E k \in DOMAIN Result :
          /\ Len(merged[k].Versions) = 0
          /\ Len(merged[k].SubPackages) = 2
          /\ Len(Result[k].Versions) = 0
          /\ Len(Result[k].SubPackages) = 1

\* The reference holds "://".
HasSchemeSeparator(ref) == \E i \in 1..Len(ref) : ref[i] = "://"

\* The reference starts with "http://" or with "https://".
StartsWithHTTP(ref) == HasSchemeSeparator(ref) /\ ref[1] \in {"http", "https"}

\* C30: source reference dispatch of fetchAPKIndex. A reference without
\* "://" is opened as a local file and nothing is requested; a reference
\* that starts with "http://" or "https://" is never opened as a file, and
\* is requested with a GET of that reference when a request can be built
\* for it; a reference with another scheme gives an error, no file opened
\* and nothing requested; an error outcome comes with no stream, and a
\* stream with no error.
C30_ReferenceDispatch ==
    (fn.pc = "returned" /\ fn.by = "fetchAPKIndex") =>
        /\ ~HasSchemeSeparator(fn.ref) => fn.opened /\ fn.sent = <<>>
        /\ StartsWithHTTP(fn.ref) =>
              /\ ~fn.opened
              /\ urlOK(fn.ref) <=> Len(fn.sent) = 1
              /\ \A i \in 1..Len(fn.sent) :
                    fn.sent[i].method = "GET" /\ fn.sent[i].url = fn.ref
        /\ (HasSchemeSeparator(fn.ref) /\ ~StartsWithHTTP(fn.ref)) =>
              fn.err # "nil" /\ ~fn.opened /\ fn.sent = <<>>
        /\ fn.err # "nil" <=> fn.stream = "nil"

\* C30 witness: fetchAPKIndex has returned an error for a reference of a
\* scheme it does not know.
C30_Witness ==
    /\ fn.pc = "returned"
    /\ fn.by = "fetchAPKIndex"
    /\ fn.ref[1] = "oci"
    /\ fn.err = "failed to fetch APKIndex data"
    /\ fn.stream = "nil"

\* The fetch step of a worker ended the process instead of returning.
FetchExits == {"downloadError", "tempFileError"}

\* A worker is about to send on channel c.
SendingOn(w, c) ==
    \/ c = "results" /\ g[w].pc = "sendResults"
    \/ c = "subPackages" /\ g[w].pc = "sendSubPackages"
    \/ c = "errors" /\ g[w].pc = "sendErr"

\* C29: the fan-out/fan-in never deadlocks. A channel is closed only after
\* every worker is done, so no worker sends on a closed channel; and under
\* fair scheduling, if the fetch and decode step of every worker returns,
\* the run gets to the print step with every worker finished, the three
\* channels closed and the three receivers terminated.
C29_NoDeadlock ==
    /\ [](closed # {} => WorkersDone)
    /\ [](\A w \in Sources : \A c \in closed : ~SendingOn(w, c))
    /\ ([](\A w \in Sources : g[w].fail \notin FetchExits))
         => <>(/\ mpc \in {"print", "done"}
               /\ WorkersDone
               /\ closed = Channels
               /\ ReceiversDone)

====
